---------------------------- MODULE Spec2Model ----------------------------
(***************************************************************************)
(* A model of pdfbot (src/bot.py): the per-user workspace on disk, the     *)
(* PENDING map of multi-step actions, the message handlers (split at       *)
(* their awaits) and the page-range engine.                                *)
(*                                                                         *)
(* Text (file names, message texts, range specs) is modelled as a sequence *)
(* of one-character strings, so that strip, split, int(), safe_name and    *)
(* the construction of output names are computed as the code computes      *)
(* them.                                                                   *)
(***************************************************************************)
EXTENDS Integers, Sequences, FiniteSets, TLC

(***************************************************************************)
(* Bounds of the model.                                                    *)
(***************************************************************************)
\* longest range spec given to parse_ranges in SpecRanges
MaxSpecLen == 4
\* largest page count of a PDF
MaxPages == 3
\* largest page count of a PDF whose page lists are compacted in SpecCompact
MaxListPages == 10

(***************************************************************************)
(* Text helpers: str.strip, str.split, int(), str().                       *)
(***************************************************************************)
IsSpace(c) == c = " "

Digits == <<"0", "1", "2", "3", "4", "5", "6", "7", "8", "9">>

IsDigit(c) == \E i \in 1..Len(Digits) : Digits[i] = c

DigitVal(c) == (CHOOSE i \in 1..Len(Digits) : Digits[i] = c) - 1

RECURSIVE lstrip(_)
lstrip(s) ==
    IF s = <<>> THEN s
    ELSE IF IsSpace(Head(s)) THEN lstrip(Tail(s)) ELSE s

RECURSIVE rstrip(_)
rstrip(s) ==
    IF s = <<>> THEN s
    ELSE IF IsSpace(s[Len(s)]) THEN rstrip(SubSeq(s, 1, Len(s) - 1)) ELSE s

\* str.strip()
strip(s) == rstrip(lstrip(s))

\* position of the first c in s, 0 when there is none (str.find + 1)
IndexOf(s, c) ==
    IF \E i \in 1..Len(s) : s[i] = c
    THEN CHOOSE i \in 1..Len(s) : s[i] = c /\ \A j \in 1..(i - 1) : s[j] # c
    ELSE 0

\* "c in s"
Contains(s, c) == IndexOf(s, c) # 0

\* str.split(c): every separator splits, empty parts are kept
RECURSIVE split(_, _)
split(s, c) ==
    LET i == IndexOf(s, c)
    IN  IF i = 0 THEN <<s>>
        ELSE <<SubSeq(s, 1, i - 1)>> \o split(SubSeq(s, i + 1, Len(s)), c)

\* str.split(c, 1): only the first separator splits (s contains c)
split1(s, c) ==
    LET i == IndexOf(s, c)
    IN  <<SubSeq(s, 1, i - 1), SubSeq(s, i + 1, Len(s))>>

RECURSIVE DigitsValue(_)
DigitsValue(s) ==
    IF s = <<>> THEN 0
    ELSE 10 * DigitsValue(SubSeq(s, 1, Len(s) - 1)) + DigitVal(s[Len(s)])

\* int(s): surrounding blanks and one sign are accepted, then digits only.
\* ok = FALSE stands for the ValueError that int() raises.
int(s) ==
    LET t    == strip(s)
        neg  == t # <<>> /\ Head(t) = "-"
        sgn  == t # <<>> /\ Head(t) \in {"-", "+"}
        body == IF sgn THEN Tail(t) ELSE t
    IN  IF body # <<>> /\ \A i \in 1..Len(body) : IsDigit(body[i])
        THEN [ok |-> TRUE, val |-> IF neg THEN 0 - DigitsValue(body) ELSE DigitsValue(body)]
        ELSE [ok |-> FALSE, val |-> 0]

\* str(n) for n >= 0
RECURSIVE str(_)
str(n) ==
    IF n < 10 THEN <<Digits[n + 1]>>
    ELSE str(n \div 10) \o <<Digits[(n % 10) + 1]>>

Max(a, b) == IF a >= b THEN a ELSE b

Min(a, b) == IF a <= b THEN a ELSE b

\* the elements of a sequence
Range(s) == {s[i] : i \in 1..Len(s)}

(***************************************************************************)
(* Range engine: parse_ranges.                                             *)
(* The result is [ok, pages]: ok = FALSE stands for the ValueError, and    *)
(* pages is the list the code returns, in the order the code appends.      *)
(***************************************************************************)
\* (mutant) add_page without the seen set: a page named twice is appended twice
add_page_unseen(pages, n1, total_pages) ==
    IF 1 <= n1 /\ n1 <= total_pages THEN Append(pages, n1 - 1) ELSE pages

\* add_page: append the 0-based index of n1 when in bounds and not seen
add_page(pages, n1, total_pages) ==
    IF 1 <= n1 /\ n1 <= total_pages /\ (n1 - 1) \notin Range(pages)
    THEN Append(pages, n1 - 1)
    ELSE pages

\* for n in range(start, end + 1): add_page(n)
RECURSIVE add_range(_, _, _, _)
add_range(pages, start, end, total_pages) ==
    IF start > end THEN pages
    ELSE add_range(add_page(pages, start, total_pages), start + 1, end, total_pages)

\* (mutant) parse_part clamping both endpoints into 1..total_pages
parse_part_clamp_both(acc, part, total_pages) ==
    IF ~acc.ok THEN acc
    ELSE IF Contains(part, "-")
    THEN LET ab    == split1(part, "-")
             a     == strip(ab[1])
             b     == strip(ab[2])
             start == int(a)
             end   == IF b = <<>> THEN [ok |-> TRUE, val |-> total_pages] ELSE int(b)
         IN  IF a = <<>> THEN [ok |-> FALSE, pages |-> <<>>]
             ELSE IF ~start.ok THEN [ok |-> FALSE, pages |-> <<>>]
             ELSE IF ~end.ok THEN [ok |-> FALSE, pages |-> <<>>]
             ELSE IF end.val < start.val THEN [ok |-> FALSE, pages |-> <<>>]
             ELSE [ok |-> TRUE,
                   pages |-> add_range(acc.pages, Min(total_pages, Max(1, start.val)),
                                       Max(1, Min(total_pages, end.val)), total_pages)]
    ELSE LET n == int(part)
         IN  IF ~n.ok THEN [ok |-> FALSE, pages |-> <<>>]
             ELSE [ok |-> TRUE, pages |-> add_page(acc.pages, n.val, total_pages)]

\* one pass of the loop over parts; acc = [ok, pages]
parse_part(acc, part, total_pages) ==
    IF ~acc.ok THEN acc
    ELSE IF Contains(part, "-")
    THEN LET ab    == split1(part, "-")
             a     == strip(ab[1])
             b     == strip(ab[2])
             start == int(a)
             end   == IF b = <<>> THEN [ok |-> TRUE, val |-> total_pages] ELSE int(b)
         IN  IF a = <<>> THEN [ok |-> FALSE, pages |-> <<>>]
             ELSE IF ~start.ok THEN [ok |-> FALSE, pages |-> <<>>]
             ELSE IF ~end.ok THEN [ok |-> FALSE, pages |-> <<>>]
             ELSE IF end.val < start.val THEN [ok |-> FALSE, pages |-> <<>>]
             ELSE [ok |-> TRUE,
                   pages |-> add_range(acc.pages, Max(1, start.val),
                                       Min(total_pages, end.val), total_pages)]
    ELSE LET n == int(part)
         IN  IF ~n.ok THEN [ok |-> FALSE, pages |-> <<>>]
             ELSE [ok |-> TRUE, pages |-> add_page(acc.pages, n.val, total_pages)]

RECURSIVE parse_parts(_, _, _)
parse_parts(acc, parts, total_pages) ==
    IF parts = <<>> THEN acc
    ELSE parse_parts(parse_part(acc, Head(parts), total_pages), Tail(parts), total_pages)

\* parts = [p.strip() for p in spec.split(",") if p.strip()]
RECURSIVE stripped_parts(_)
stripped_parts(ps) ==
    IF ps = <<>> THEN <<>>
    ELSE IF strip(Head(ps)) = <<>> THEN stripped_parts(Tail(ps))
         ELSE <<strip(Head(ps))>> \o stripped_parts(Tail(ps))

\* (mutant) parse_ranges without the final check that some page was selected
parse_ranges_allow_empty(spec, total_pages) ==
    IF strip(spec) = <<>> THEN [ok |-> FALSE, pages |-> <<>>]
    ELSE parse_parts([ok |-> TRUE, pages |-> <<>>],
                     stripped_parts(split(strip(spec), ",")), total_pages)

parse_ranges(spec, total_pages) ==
    IF strip(spec) = <<>> THEN [ok |-> FALSE, pages |-> <<>>]
    ELSE LET r == parse_parts([ok |-> TRUE, pages |-> <<>>],
                              stripped_parts(split(strip(spec), ",")), total_pages)
         IN  IF ~r.ok THEN r
             ELSE IF r.pages = <<>> THEN [ok |-> FALSE, pages |-> <<>>]
             ELSE r

\* f"{s}-{e}" if s != e else f"{s}"
run_text(s, e) == IF s # e THEN str(s) \o <<"-">> \o str(e) ELSE str(s)

\* ",".join(ranges)
RECURSIVE join(_, _)
join(ts, sep) ==
    IF ts = <<>> THEN <<>>
    ELSE IF Len(ts) = 1 THEN ts[1]
    ELSE ts[1] \o sep \o join(Tail(ts), sep)

\* (mutant) the loop of pages_to_compact_ranges closing the run at every page
RECURSIVE compact_loop_no_merge(_, _, _, _)
compact_loop_no_merge(ranges, s, e, rest) ==
    IF rest = <<>> THEN Append(ranges, run_text(s, e))
    ELSE compact_loop_no_merge(Append(ranges, run_text(s, e)), Head(rest), Head(rest),
                               Tail(rest))

\* the loop of pages_to_compact_ranges: the run s..e grows while the next
\* page is e + 1, and is appended to ranges when it ends
RECURSIVE compact_loop(_, _, _, _)
compact_loop(ranges, s, e, rest) ==
    IF rest = <<>> THEN Append(ranges, run_text(s, e))
    ELSE IF Head(rest) = e + 1
    THEN compact_loop(ranges, s, Head(rest), Tail(rest))
    ELSE compact_loop(Append(ranges, run_text(s, e)), Head(rest), Head(rest), Tail(rest))

pages_to_compact_ranges(pages_1_based_sorted) ==
    IF pages_1_based_sorted = <<>> THEN <<>>
    ELSE join(compact_loop(<<>>, pages_1_based_sorted[1], pages_1_based_sorted[1],
                           Tail(pages_1_based_sorted)),
              <<",">>)

(***************************************************************************)
(* File names: character classes, str.lower, Path.suffix, Path.stem,       *)
(* the order of sorted(), and safe_name.                                   *)
(***************************************************************************)
UpperCase == <<"A", "B", "C", "D", "E", "F", "G", "H", "I", "J", "K", "L", "M",
               "N", "O", "P", "Q", "R", "S", "T", "U", "V", "W", "X", "Y", "Z">>

LowerCase == <<"a", "b", "c", "d", "e", "f", "g", "h", "i", "j", "k", "l", "m",
               "n", "o", "p", "q", "r", "s", "t", "u", "v", "w", "x", "y", "z">>

\* the characters of the model in the order of their code points
CharOrder == <<" ", "+", ",", "-", ".">> \o Digits \o <<"?">> \o UpperCase
             \o <<"_">> \o LowerCase

Code(c) == CHOOSE i \in 1..Len(CharOrder) : CharOrder[i] = c

IsUpper(c) == \E i \in 1..Len(UpperCase) : UpperCase[i] = c

IsLower(c) == \E i \in 1..Len(LowerCase) : LowerCase[i] = c

\* str.lower()
lower(s) ==
    [i \in 1..Len(s) |->
        IF IsUpper(s[i])
        THEN LowerCase[CHOOSE k \in 1..Len(UpperCase) : UpperCase[k] = s[i]]
        ELSE s[i]]

\* str.endswith
endswith(s, suf) ==
    Len(s) >= Len(suf) /\ SubSeq(s, Len(s) - Len(suf) + 1, Len(s)) = suf

\* position of the last c in s, 0 when there is none (str.rfind + 1)
LastIndexOf(s, c) ==
    IF \E i \in 1..Len(s) : s[i] = c
    THEN CHOOSE i \in 1..Len(s) : s[i] = c /\ \A j \in (i + 1)..Len(s) : s[j] # c
    ELSE 0

\* Path.suffix: from the last dot, unless the dot is first or last
suffix(name) ==
    LET i == LastIndexOf(name, ".")
    IN  IF 1 < i /\ i < Len(name) THEN SubSeq(name, i, Len(name)) ELSE <<>>

\* Path.stem
stem(name) == SubSeq(name, 1, Len(name) - Len(suffix(name)))

\* Path.with_suffix
with_suffix(name, suf) == stem(name) \o suf

\* a < b in the order of sorted() on paths of one directory
RECURSIVE Less(_, _)
Less(a, b) ==
    IF b = <<>> THEN FALSE
    ELSE IF a = <<>> THEN TRUE
    ELSE IF Head(a) = Head(b) THEN Less(Tail(a), Tail(b))
    ELSE Code(Head(a)) < Code(Head(b))

\* sorted(S)
RECURSIVE sorted(_)
sorted(S) ==
    IF S = {} THEN <<>>
    ELSE LET m == CHOOSE x \in S : \A y \in S : x = y \/ Less(x, y)
         IN  <<m>> \o sorted(S \ {m})

\* [A-Za-z0-9._-]
IsSafeChar(c) == IsUpper(c) \/ IsLower(c) \/ IsDigit(c) \/ c \in {".", "_", "-"}

\* re.sub(r"[^A-Za-z0-9._-]+", "_", s): each run of other characters becomes
\* one underscore
RECURSIVE sub_unsafe(_, _)
sub_unsafe(s, inRun) ==
    IF s = <<>> THEN <<>>
    ELSE IF IsSafeChar(Head(s)) THEN <<Head(s)>> \o sub_unsafe(Tail(s), FALSE)
    ELSE IF inRun THEN sub_unsafe(Tail(s), TRUE)
    ELSE <<"_">> \o sub_unsafe(Tail(s), TRUE)

DefaultName == <<"f", "i", "l", "e", ".", "p", "d", "f">>

safe_name(name) ==
    LET n == sub_unsafe(strip(name), FALSE)
    IN  IF n = <<>> THEN DefaultName ELSE n

(***************************************************************************)
(* Configuration and bounds of the bot model.                              *)
(***************************************************************************)
\* the users that send messages: 1 and 2 are in the allow-list unless it is
\* empty, 3 never is
Users == {1, 2, 3}

\* the values of the ALLOWED_USERS environment variable
AllowLists == {{1, 2}, {}}

\* the values of the SESSION_TTL environment variable, in clock ticks: the
\* one of most specifications, and the largest of SpecClock
TTL_TICKS == 1

MaxTtl == 1

MAX_FILE_MB == 45

MAX_FILE_BYTES == MAX_FILE_MB * 1024 * 1024

\* session_last: the value that stands for "no marker"
NoMarker == 0

DefaultDpi == 150

MinDpi == 72

MaxDpi == 400

\* more images than this are sent as one zip
ZipThreshold == 10

\* the clock stops at MaxTime
MaxTime == 3
\* handlers that may be in flight at once in SpecConc
MaxInFlight == 2
\* distinct documents (file contents) a user can upload
MaxDocs == 1
\* entries a workspace directory can hold; creating one more fails
MaxFiles == 3
\* entries in a workspace beyond which its user uploads no more
MaxUploads == 2

Slots == 1..MaxInFlight

PdfSuffix == <<".", "p", "d", "f">>

Presets == {<<"s", "c", "r", "e", "e", "n">>, <<"e", "b", "o", "o", "k">>,
            <<"p", "r", "i", "n", "t", "e", "r">>,
            <<"p", "r", "e", "p", "r", "e", "s", "s">>}

\* The messages a user sends: the file names and declared sizes of the
\* uploads, the free texts, the menu buttons and the commands.
Messages(names, sizes, texts, buttons, commands) ==
    [names |-> names, sizes |-> sizes, texts |-> texts, buttons |-> buttons,
     commands |-> commands]

\* One message at a time.  User 1 uploads "a.pdf", "?.pdf" (sanitized to
\* "_.pdf") and "a.txt" (not a PDF), within and over the size limit, sends
\* the texts "1", "0", "x" and "screen", and uses every button and command;
\* user 2, the other user of the claims about two users, only sends the
\* commands.
SeqInputs ==
    [u \in {1, 2} |->
        IF u = 1
        THEN Messages({<<"a", ".", "p", "d", "f">>, <<"?", ".", "p", "d", "f">>,
                       <<"a", ".", "t", "x", "t">>},
                      {MAX_FILE_BYTES, MAX_FILE_BYTES + 1},
                      {<<"1">>, <<"0">>, <<"x">>, <<"s", "c", "r", "e", "e", "n">>},
                      {"BTN_EXTRACT", "BTN_IMAGES", "BTN_COMPRESS"},
                      {"clear", "list", "cancel"})
        ELSE Messages({}, {}, {}, {}, {"clear", "list", "cancel"})]

\* Overlapping handlers.  One user's messages are enough for handlers to
\* overlap: "a.pdf", the text "1", an extract, and every command.
ConcInputs ==
    [u \in {1} |->
        Messages({<<"a", ".", "p", "d", "f">>}, {MAX_FILE_BYTES}, {<<"1">>},
                 {"BTN_EXTRACT"}, {"clear", "list", "cancel"})]

\* Every handler, one message at a time.  User 1 sends what it sends in
\* SeqInputs and the slash-commands with arguments: a file index that is not
\* a number, out of range, in range, and missing arguments.  User 2 sends
\* three commands.  User 3 sends one message to every handler.
AllInputs ==
    [u \in Users |->
        IF u = 1
        THEN [SeqInputs[1] EXCEPT !.commands = @ \cup {"start", "help", "btn_help", "merge"}]
             @@ [extracts   |-> {<<"/", "e", "x", "t", "r", "a", "c", "t", " ", "x", " ", "1">>, <<"/", "e", "x", "t", "r", "a", "c", "t", " ", "1", " ", "1">>,
                                 <<"/", "e", "x", "t", "r", "a", "c", "t", " ", "0", " ", "1">>, <<"/", "e", "x", "t", "r", "a", "c", "t", " ", "1">>},
                 images     |-> {<<"/", "i", "m", "a", "g", "e", "s", " ", "1", " ", "1">>, <<"/", "i", "m", "a", "g", "e", "s", " ", "1", " ", "x">>,
                                 <<"/", "i", "m", "a", "g", "e", "s", " ", "x">>, <<"/", "i", "m", "a", "g", "e", "s">>},
                 compresses |-> {<<"/", "c", "o", "m", "p", "r", "e", "s", "s", " ", "1", " ", "s", "c", "r", "e", "e", "n">>,
                                 <<"/", "c", "o", "m", "p", "r", "e", "s", "s", " ", "x", " ", "s", "c", "r", "e", "e", "n">>,
                                 <<"/", "c", "o", "m", "p", "r", "e", "s", "s", " ", "1">>}]
        ELSE IF u = 2
        THEN SeqInputs[2] @@ [extracts |-> {}, images |-> {}, compresses |-> {}]
        ELSE Messages({<<"a", ".", "p", "d", "f">>}, {MAX_FILE_BYTES}, {<<"1">>},
                      {"BTN_EXTRACT"},
                      {"clear", "list", "cancel", "start", "help", "btn_help", "merge"})
             @@ [extracts   |-> {<<"/", "e", "x", "t", "r", "a", "c", "t", " ", "1", " ", "1">>},
                 images     |-> {<<"/", "i", "m", "a", "g", "e", "s", " ", "1", " ", "1">>},
                 compresses |-> {<<"/", "c", "o", "m", "p", "r", "e", "s", "s", " ", "1", " ", "s", "c", "r", "e", "e", "n">>}]]

(***************************************************************************)
(* State.                                                                  *)
(***************************************************************************)
VARIABLES
    ALLOWED_USERS,  \* the allow-list, read from the environment at start
    SESSION_TTL,    \* the time to live of a session, read from the environment
    now,        \* the wall clock, now_ts()
    BASE_DIR,   \* BASE_DIR[u]: the workspace directory of user u on disk
    PENDING,    \* PENDING[u]: the pending action of user u, or NoPending
    tasks,      \* tasks[h]: the handler running in slot h, or Idle
    rspec,      \* range engine: the spec text given to parse_ranges
    rtotal,     \* range engine: total_pages
    rout,       \* range engine: the call's result, or NotCalled
    rlist       \* range engine: the page list given to pages_to_compact_ranges

botvars == <<ALLOWED_USERS, SESSION_TTL, now, BASE_DIR, PENDING, tasks>>

rangevars == <<rspec, rtotal, rout, rlist>>

vars == <<ALLOWED_USERS, SESSION_TTL, now, BASE_DIR, PENDING, tasks, rspec, rtotal, rout, rlist>>

\* a workspace directory that does not exist
NoDir == [exists |-> FALSE, last |-> NoMarker, files |-> <<>>]

\* a directory entry: a regular file holding data, or a subdirectory
FileEntry(data) == [kind |-> "file", data |-> data]

DirEntry == [kind |-> "dir", data |-> 0]

\* what the external PDF tools write
ToolOutput == 0

\* the payload dict of a pending action; id stands for the identity of the
\* dict object that btn_action creates
EmptyPayload(id) == [id |-> id, idx |-> 0, src |-> <<>>]

NoPending == [action |-> "", step |-> 0, payload |-> EmptyPayload(0)]

\* a handler slot with no handler in it
Idle == [handler |-> "", user |-> 0, pc |-> "idle", txt |-> <<>>,
         action |-> "", step |-> 0, payload |-> EmptyPayload(0),
         target |-> <<>>, doc |-> 0, reply |-> "", finally |-> FALSE,
         invoked |-> FALSE]

NotCalled == [ok |-> FALSE, pages |-> <<>>, called |-> FALSE]

(***************************************************************************)
(* Security / session.                                                     *)
(***************************************************************************)
\* (mutant) an empty allow-list lets everybody in
check_allowed_public(u) == ALLOWED_USERS = {} \/ u \in ALLOWED_USERS

check_allowed(u) == ALLOWED_USERS # {} /\ u \in ALLOWED_USERS

\* user_dir: mkdir(parents=True, exist_ok=True)
user_dir(fs, u) ==
    IF fs[u].exists THEN fs
    ELSE [fs EXCEPT ![u] = [exists |-> TRUE, last |-> NoMarker, files |-> <<>>]]

\* touch_session: write now_ts() into the marker
touch_session(fs, u, t) == [fs EXCEPT ![u].last = t]

\* session_last: the marker's timestamp, 0 without a marker
session_last(d) == d.last

\* (mutant) the sweep with >= in place of >
cleanup_old_sessions_ge(fs, t) ==
    [u \in DOMAIN fs |->
        IF /\ fs[u].exists
           /\ session_last(fs[u]) # 0
           /\ t - session_last(fs[u]) >= SESSION_TTL
        THEN NoDir
        ELSE fs[u]]

\* (mutant) the sweep without the test that a marker exists
cleanup_old_sessions_unmarked(fs, t) ==
    [u \in DOMAIN fs |->
        IF fs[u].exists /\ t - session_last(fs[u]) > SESSION_TTL
        THEN NoDir
        ELSE fs[u]]

\* cleanup_old_sessions at time t: rmtree of every directory whose marker is
\* older than SESSION_TTL
cleanup_old_sessions(fs, t) ==
    [u \in DOMAIN fs |->
        IF /\ fs[u].exists
           /\ session_last(fs[u]) # 0
           /\ t - session_last(fs[u]) > SESSION_TTL
        THEN NoDir
        ELSE fs[u]]

\* the first three statements of most handlers:
\* d = user_dir(id); touch_session(d); cleanup_old_sessions()
touch_and_sweep(fs, u, t) ==
    cleanup_old_sessions(touch_session(user_dir(fs, u), u, t), t)

(***************************************************************************)
(* File registry.                                                          *)
(***************************************************************************)
\* list_pdfs: the regular files with suffix .pdf, sorted by name
list_pdfs(d) ==
    sorted({n \in DOMAIN d.files :
                d.files[n].kind = "file" /\ lower(suffix(n)) = PdfSuffix})

\* (mutant) Path.exists that finds every name
path_exists_always(f, n) == TRUE

\* Path.exists: whether the directory holding f has an entry named n
path_exists(f, n) == n \in DOMAIN f

\* the entries of f without name n
Remove(f, n) == [m \in DOMAIN f \ {n} |-> f[m]]

\* the entries of f with n created or overwritten
Put(f, n, e) == [m \in DOMAIN f \cup {n} |-> IF m = n THEN e ELSE f[m]]

\* whether the file system lets name n be created in a directory holding f
CanCreate(f, n) == n \in DOMAIN f \/ Cardinality(DOMAIN f) < MaxFiles

\* the loop of on_document: the first stem_k.suf that does not exist, k >= 2
RECURSIVE first_free(_, _, _, _)
first_free(f, st, suf, k) ==
    LET cand == st \o <<"_">> \o str(k) \o suf
    IN  IF cand \notin DOMAIN f THEN cand ELSE first_free(f, st, suf, k + 1)

\* the target of an upload named fname into a directory holding f
upload_target(f, fname) ==
    IF fname \in DOMAIN f
    THEN first_free(f, stem(fname), suffix(fname), 2)
    ELSE fname

(***************************************************************************)
(* The try block of the terminal step: what the dispatch of an action on   *)
(* source file src with parameter text txt can do to the files f of the    *)
(* workspace.  Each operator gives the set of possible outcomes            *)
(* [files, reply, invoked]: the external tools succeed or fail as they     *)
(* please.  reply "Failed" is the except branch; invoked says whether an   *)
(* external tool was run.                                                  *)
(***************************************************************************)
Outcome(f, reply, invoked) == [files |-> f, reply |-> reply, invoked |-> invoked]

ExtractPrefix == <<"e", "x", "t", "r", "a", "c", "t", "_">>

ImagesPrefix == <<"i", "m", "a", "g", "e", "s", "_">>

CompressedPrefix == <<"c", "o", "m", "p", "r", "e", "s", "s", "e", "d", "_">>

TmpPdfSuffix == <<".", "t", "m", "p", ".", "p", "d", "f">>

\* action == "extract": pdf_page_count, parse_ranges, extract_pages
ExtractOutcomes(f, src, txt) ==
    {Outcome(f, "Failed", TRUE)}
    \cup UNION {
        LET pages0 == parse_ranges(txt, total)
            out    == ExtractPrefix \o stem(src) \o <<"_">> \o safe_name(txt)
                      \o PdfSuffix
        IN  IF pages0.ok /\ CanCreate(f, out)
            THEN {Outcome(Put(f, out, FileEntry(ToolOutput)), "Extract result", TRUE)}
            ELSE {} : total \in 1..MaxPages}

\* the conversion to images at a given dpi: rmtree of an old out_dir,
\* pdf_to_images, zip
ImagesRun(f, src, dpi) ==
    LET out_dir == ImagesPrefix \o stem(src) \o <<"_">> \o str(dpi)
                   \o <<"d", "p", "i">>
        f0      == IF out_dir \in DOMAIN f /\ f[out_dir].kind = "dir"
                   THEN Remove(f, out_dir) ELSE f
        f1      == Put(f0, out_dir, DirEntry)
        zip     == out_dir \o <<".", "z", "i", "p">>
    IN  IF ~CanCreate(f0, out_dir) \/ out_dir \in DOMAIN f0
        THEN {Outcome(f0, "Failed", FALSE)}
        ELSE {Outcome(f1, "Failed", TRUE)}
             \cup UNION {
                   IF n <= ZipThreshold
                   THEN {Outcome(f1, "Sending images", TRUE)}
                   ELSE IF CanCreate(f1, zip)
                   THEN {Outcome(Put(f1, zip, FileEntry(ToolOutput)),
                                 "Images zipped", TRUE)}
                   ELSE {} : n \in {1, ZipThreshold + 1}}

\* the dpi a number is clamped to
clamp_dpi(dpi) == Max(MinDpi, Min(dpi, MaxDpi))

\* action == "images": the dpi from the text ("ok" for the default), then
\* the conversion
ImagesOutcomes(f, src, txt) ==
    IF lower(txt) # <<"o", "k">> /\ ~int(txt).ok
    THEN {Outcome(f, "Failed", FALSE)}
    ELSE ImagesRun(f, src, IF lower(txt) = <<"o", "k">> THEN DefaultDpi
                           ELSE clamp_dpi(int(txt).val))

MergedName == <<"m", "e", "r", "g", "e", "d", ".", "p", "d", "f">>

\* merge_pdfs into merged.pdf: qpdf fails, or writes the output
MergeOutcomes(f) ==
    {Outcome(f, "Failed", TRUE)}
    \cup (IF CanCreate(f, MergedName)
          THEN {Outcome(Put(f, MergedName, FileEntry(ToolOutput)), "Merged PDF", TRUE)}
          ELSE {})

\* action == "compress": preset check, gs into tmp, qpdf into out, tmp.unlink
CompressOutcomes(f, src, txt) ==
    LET preset == lower(txt)
        out    == CompressedPrefix \o preset \o <<"_">> \o src
        tmp    == with_suffix(out, TmpPdfSuffix)
        f1     == Put(f, tmp, FileEntry(ToolOutput))
    IN  IF preset \notin Presets
        THEN {Outcome(f, "Failed", FALSE)}
        ELSE {Outcome(f, "Failed", TRUE)}
             \cup (IF CanCreate(f, tmp) THEN {Outcome(f1, "Failed", TRUE)} ELSE {})
             \cup (IF CanCreate(f, tmp) /\ CanCreate(f1, out)
                   THEN {Outcome(Remove(Put(f1, out, FileEntry(ToolOutput)), tmp),
                                 "Compressed", TRUE)}
                   ELSE {})

DispatchOutcomes(action, f, src, txt) ==
    IF action = "extract" THEN ExtractOutcomes(f, src, txt)
    ELSE IF action = "images" THEN ImagesOutcomes(f, src, txt)
    ELSE CompressOutcomes(f, src, txt)

(***************************************************************************)
(* Handlers.  A handler runs from its start to its first await in one      *)
(* step (the event loop runs nothing else meanwhile), is then suspended    *)
(* (pc "download", "reply"), and ends at pc "done"; Return frees its slot. *)
(***************************************************************************)
\* a handler, with the message it is about to send
Task(handler, u, pc, reply) ==
    [Idle EXCEPT !.handler = handler, !.user = u, !.pc = pc, !.reply = reply]

\* put handler t into the first free slot
Launch(t) ==
    \E h \in Slots :
        /\ tasks[h] = Idle
        /\ \A k \in 1..(h - 1) : tasks[k] # Idle
        /\ tasks' = [tasks EXCEPT ![h] = t]

\* the payload dicts of user u that are still referenced, by PENDING or by
\* a handler in flight
UsedIds(u) ==
    {PENDING[u].payload.id}
    \cup {tasks[h].payload.id : h \in {k \in Slots : tasks[k].user = u}}

\* the identity of a dict newly created for user u
NewId(u) ==
    CHOOSE k \in 1..(Cardinality(UsedIds(u)) + 1) :
        k \notin UsedIds(u) /\ \A j \in 1..(k - 1) : j \in UsedIds(u)

\* (mutant) clear_cmd that forgets PENDING.pop
clear_cmd_keeps_pending(u) ==
    /\ BASE_DIR' = [touch_session(user_dir(BASE_DIR, u), u, now)
                        EXCEPT ![u].files = <<>>]
    /\ Launch(Task("clear_cmd", u, "reply", "Cleared your session files."))
    /\ UNCHANGED <<now, PENDING, rangevars, ALLOWED_USERS, SESSION_TTL>>

\* /clear and the Clear button
clear_cmd(u) ==
    IF ~check_allowed(u)
    THEN Launch(Task("clear_cmd", u, "done", "")) /\ UNCHANGED <<now, BASE_DIR, PENDING, rangevars, ALLOWED_USERS, SESSION_TTL>>
    ELSE /\ BASE_DIR' = [touch_session(user_dir(BASE_DIR, u), u, now)
                            EXCEPT ![u].files = <<>>]
         /\ PENDING' = [PENDING EXCEPT ![u] = NoPending]
         /\ Launch(Task("clear_cmd", u, "reply", "Cleared your session files."))
         /\ UNCHANGED <<now, rangevars, ALLOWED_USERS, SESSION_TTL>>

\* /list and the List button
list_cmd(u) ==
    IF ~check_allowed(u)
    THEN Launch(Task("list_cmd", u, "done", "")) /\ UNCHANGED <<now, BASE_DIR, PENDING, rangevars, ALLOWED_USERS, SESSION_TTL>>
    ELSE LET fs == touch_and_sweep(BASE_DIR, u, now)
         IN  /\ BASE_DIR' = fs
             /\ Launch(Task("list_cmd", u, "reply",
                            IF list_pdfs(fs[u]) = <<>> THEN "No PDFs uploaded yet."
                            ELSE "Your PDFs:"))
             /\ UNCHANGED <<now, PENDING, rangevars, ALLOWED_USERS, SESSION_TTL>>

\* (mutant) btn_cancel that pops nothing
btn_cancel_keeps_pending(u) ==
    /\ Launch([Task("btn_cancel", u, "reply", "Cancelled.")
                  EXCEPT !.action = PENDING[u].action, !.step = PENDING[u].step,
                         !.payload = PENDING[u].payload])
    /\ UNCHANGED <<now, BASE_DIR, PENDING, rangevars, ALLOWED_USERS, SESSION_TTL>>

\* the Cancel button
btn_cancel(u) ==
    IF ~check_allowed(u)
    THEN Launch(Task("btn_cancel", u, "done", "")) /\ UNCHANGED <<now, BASE_DIR, PENDING, rangevars, ALLOWED_USERS, SESSION_TTL>>
    ELSE /\ PENDING' = [PENDING EXCEPT ![u] = NoPending]
         /\ Launch([Task("btn_cancel", u, "reply", "Cancelled.")
                       EXCEPT !.action = PENDING[u].action, !.step = PENDING[u].step,
                              !.payload = PENDING[u].payload])
         /\ UNCHANGED <<now, BASE_DIR, rangevars, ALLOWED_USERS, SESSION_TTL>>

\* the action a menu button stands for
ActionOf(button) ==
    IF button = "BTN_EXTRACT" THEN "extract"
    ELSE IF button = "BTN_IMAGES" THEN "images"
    ELSE "compress"

\* (mutant) btn_action that keeps the payload of the action it replaces
btn_action_keeps_payload(u, button) ==
    LET fs == touch_and_sweep(BASE_DIR, u, now)
    IN  /\ BASE_DIR' = fs
        /\ IF list_pdfs(fs[u]) = <<>>
           THEN /\ Launch([Task("btn_action", u, "reply",
                                "No PDFs uploaded. Send PDFs first.")
                              EXCEPT !.action = ActionOf(button)])
                /\ UNCHANGED PENDING
           ELSE /\ PENDING' = [PENDING EXCEPT ![u] =
                                 [action |-> ActionOf(button), step |-> 1,
                                  payload |-> IF PENDING[u] = NoPending
                                              THEN EmptyPayload(NewId(u))
                                              ELSE PENDING[u].payload]]
                /\ Launch([Task("btn_action", u, "reply", "Send file index")
                              EXCEPT !.action = ActionOf(button)])
        /\ UNCHANGED <<now, rangevars, ALLOWED_USERS, SESSION_TTL>>

\* the Extract, Images and Compress buttons
btn_action(u, button) ==
    IF ~check_allowed(u)
    THEN Launch(Task("btn_action", u, "done", "")) /\ UNCHANGED <<now, BASE_DIR, PENDING, rangevars, ALLOWED_USERS, SESSION_TTL>>
    ELSE LET fs == touch_and_sweep(BASE_DIR, u, now)
         IN  /\ BASE_DIR' = fs
             /\ IF list_pdfs(fs[u]) = <<>>
                THEN /\ Launch([Task("btn_action", u, "reply",
                                     "No PDFs uploaded. Send PDFs first.")
                                   EXCEPT !.action = ActionOf(button)])
                     /\ UNCHANGED PENDING
                ELSE /\ PENDING' = [PENDING EXCEPT ![u] =
                                      [action |-> ActionOf(button), step |-> 1,
                                       payload |-> EmptyPayload(NewId(u))]]
                     /\ Launch([Task("btn_action", u, "reply", "Send file index")
                                   EXCEPT !.action = ActionOf(button)])
             /\ UNCHANGED <<now, rangevars, ALLOWED_USERS, SESSION_TTL>>

\* (mutant) step 1 that drops the pending action on a bad index
step1_drops_on_bad_index(p, pdfs, txt) ==
    LET idx == int(txt)
    IN  IF ~idx.ok
        THEN [pending |-> NoPending, reply |-> "Send a number (file index from /list)."]
        ELSE IF idx.val < 1 \/ idx.val > Len(pdfs)
        THEN [pending |-> NoPending, reply |-> "Invalid index. Use /list."]
        ELSE [pending |-> [action |-> p.action, step |-> 2,
                           payload |-> [id |-> p.payload.id, idx |-> idx.val,
                                        src |-> pdfs[idx.val]]],
              reply |-> "Send parameter"]

\* pending_flow, step 1 (choose file) on pending action p, listing pdfs and
\* text txt: the pending action it leaves and the message it sends
step1(p, pdfs, txt) ==
    LET idx == int(txt)
    IN  IF ~idx.ok
        THEN [pending |-> p, reply |-> "Send a number (file index from /list)."]
        ELSE IF idx.val < 1 \/ idx.val > Len(pdfs)
        THEN [pending |-> p, reply |-> "Invalid index. Use /list."]
        ELSE [pending |-> [action |-> p.action, step |-> 2,
                           payload |-> [id |-> p.payload.id, idx |-> idx.val,
                                        src |-> pdfs[idx.val]]],
              reply |-> "Send parameter"]

\* (mutant) step 2 that looks the source up again by its index
payload_src_by_index(payload, pdfs) ==
    IF payload.idx \in 1..Len(pdfs) THEN pdfs[payload.idx] ELSE payload.src

\* step 2: src = Path(payload["src"]), the path captured at step 1
payload_src(payload, pdfs) == payload.src

\* free text: the interactive steps, from the start to the first await
pending_flow(u, text) ==
    IF ~check_allowed(u) \/ PENDING[u] = NoPending
    THEN Launch(Task("pending_flow", u, "done", "")) /\ UNCHANGED <<now, BASE_DIR, PENDING, rangevars, ALLOWED_USERS, SESSION_TTL>>
    ELSE LET p    == PENDING[u]
             fs   == touch_and_sweep(BASE_DIR, u, now)
             pdfs == list_pdfs(fs[u])
             txt  == strip(text)
             t    == [Task("pending_flow", u, "reply", "")
                         EXCEPT !.txt = txt, !.action = p.action, !.step = p.step,
                                !.payload = p.payload]
         IN  /\ UNCHANGED <<now, rangevars, ALLOWED_USERS, SESSION_TTL>>
             /\ IF pdfs = <<>>
                THEN /\ BASE_DIR' = fs
                     /\ PENDING' = [PENDING EXCEPT ![u] = NoPending]
                     /\ Launch([t EXCEPT !.reply = "No PDFs uploaded."])
                ELSE IF p.step = 1
                THEN /\ BASE_DIR' = fs
                     /\ PENDING' = [PENDING EXCEPT ![u] = step1(p, pdfs, txt).pending]
                     /\ Launch([t EXCEPT !.reply = step1(p, pdfs, txt).reply])
                ELSE IF ~path_exists(fs[u].files, payload_src(p.payload, pdfs))
                THEN /\ BASE_DIR' = fs
                     /\ PENDING' = [PENDING EXCEPT ![u] = NoPending]
                     /\ Launch([t EXCEPT !.reply = "Source file disappeared. Use /list."])
                ELSE \E o \in DispatchOutcomes(p.action, fs[u].files,
                                                payload_src(p.payload, pdfs), txt) :
                        /\ BASE_DIR' = [fs EXCEPT ![u].files = o.files]
                        /\ UNCHANGED PENDING
                        /\ Launch([t EXCEPT !.reply = o.reply, !.finally = TRUE,
                                            !.invoked = o.invoked])

\* a document message, from the start to the await of the download
on_document(u, file_name, file_size, doc) ==
    IF ~check_allowed(u)
    THEN Launch(Task("on_document", u, "done", "")) /\ UNCHANGED <<now, BASE_DIR, PENDING, rangevars, ALLOWED_USERS, SESSION_TTL>>
    ELSE IF file_name = <<>> \/ ~endswith(lower(file_name), PdfSuffix)
    THEN /\ Launch(Task("on_document", u, "reply", "Send a PDF file (.pdf)."))
         /\ UNCHANGED <<now, BASE_DIR, PENDING, rangevars, ALLOWED_USERS, SESSION_TTL>>
    ELSE IF file_size # 0 /\ file_size > MAX_FILE_BYTES
    THEN /\ Launch(Task("on_document", u, "reply", "File too large"))
         /\ UNCHANGED <<now, BASE_DIR, PENDING, rangevars, ALLOWED_USERS, SESSION_TTL>>
    ELSE LET fs == touch_session(user_dir(BASE_DIR, u), u, now)
         IN  /\ BASE_DIR' = fs
             /\ Launch([Task("on_document", u, "download", "")
                           EXCEPT !.target = upload_target(fs[u].files, safe_name(file_name)),
                                  !.doc = doc])
             /\ UNCHANGED <<now, PENDING, rangevars, ALLOWED_USERS, SESSION_TTL>>

\* str.split(maxsplit = n) without a separator: the words between runs of
\* whitespace; after n splits the rest is one item, its leading whitespace
\* removed
RECURSIVE split_ws(_, _)
split_ws(s, maxsplit) ==
    LET t == lstrip(s)
        k == IF \E i \in 1..Len(t) : IsSpace(t[i])
             THEN CHOOSE i \in 1..Len(t) :
                    IsSpace(t[i]) /\ \A j \in 1..(i - 1) : ~IsSpace(t[j])
             ELSE Len(t) + 1
    IN  IF t = <<>> THEN <<>>
        ELSE IF maxsplit = 0 THEN <<t>>
        ELSE <<SubSeq(t, 1, k - 1)>> \o split_ws(SubSeq(t, k, Len(t)), maxsplit - 1)

\* str.split() with no limit
words(s) == split_ws(s, Len(s))

\* a handler that an error leaves: no message is sent
Raised(handler, u) == Task(handler, u, "done", "unhandled error")

\* /start
start(u) ==
    IF ~check_allowed(u)
    THEN Launch(Task("start", u, "done", "")) /\ UNCHANGED <<now, BASE_DIR, PENDING, rangevars, ALLOWED_USERS, SESSION_TTL>>
    ELSE /\ BASE_DIR' = touch_session(user_dir(BASE_DIR, u), u, now)
         /\ Launch(Task("start", u, "reply", "HELP_TEXT"))
         /\ UNCHANGED <<now, PENDING, rangevars, ALLOWED_USERS, SESSION_TTL>>

\* /help
help_cmd(u) ==
    IF ~check_allowed(u)
    THEN Launch(Task("help_cmd", u, "done", "")) /\ UNCHANGED <<now, BASE_DIR, PENDING, rangevars, ALLOWED_USERS, SESSION_TTL>>
    ELSE /\ BASE_DIR' = touch_session(user_dir(BASE_DIR, u), u, now)
         /\ Launch(Task("help_cmd", u, "reply", "HELP_TEXT"))
         /\ UNCHANGED <<now, PENDING, rangevars, ALLOWED_USERS, SESSION_TTL>>

\* the Help button
btn_help(u) ==
    /\ Launch(IF check_allowed(u) THEN Task("btn_help", u, "reply", "HELP_TEXT")
              ELSE Task("btn_help", u, "done", ""))
    /\ UNCHANGED <<now, BASE_DIR, PENDING, rangevars, ALLOWED_USERS, SESSION_TTL>>

\* /merge and the Merge button
merge_cmd(u) ==
    IF ~check_allowed(u)
    THEN Launch(Task("merge_cmd", u, "done", "")) /\ UNCHANGED <<now, BASE_DIR, PENDING, rangevars, ALLOWED_USERS, SESSION_TTL>>
    ELSE LET fs == touch_and_sweep(BASE_DIR, u, now)
         IN  /\ UNCHANGED <<now, PENDING, rangevars, ALLOWED_USERS, SESSION_TTL>>
             /\ IF Len(list_pdfs(fs[u])) < 2
                THEN /\ BASE_DIR' = fs
                     /\ Launch(Task("merge_cmd", u, "reply", "Upload at least 2 PDFs"))
                ELSE \E o \in MergeOutcomes(fs[u].files) :
                        /\ BASE_DIR' = [fs EXCEPT ![u].files = o.files]
                        /\ Launch([Task("merge_cmd", u, "reply", o.reply)
                                      EXCEPT !.invoked = o.invoked])

\* /extract <file_index> <ranges>
extract_cmd(u, text) ==
    IF ~check_allowed(u)
    THEN Launch(Task("extract_cmd", u, "done", "")) /\ UNCHANGED <<now, BASE_DIR, PENDING, rangevars, ALLOWED_USERS, SESSION_TTL>>
    ELSE LET fs   == touch_and_sweep(BASE_DIR, u, now)
             args == split_ws(text, 2)
             pdfs == list_pdfs(fs[u])
             t    == [Task("extract_cmd", u, "reply", "") EXCEPT !.txt = text]
         IN  /\ UNCHANGED <<now, PENDING, rangevars, ALLOWED_USERS, SESSION_TTL>>
             /\ IF Len(args) < 3
                THEN BASE_DIR' = fs /\ Launch([t EXCEPT !.reply = "Usage"])
                ELSE IF ~int(args[2]).ok
                THEN BASE_DIR' = fs /\ Launch([Raised("extract_cmd", u) EXCEPT !.txt = text])
                ELSE IF int(args[2]).val < 1 \/ int(args[2]).val > Len(pdfs)
                THEN BASE_DIR' = fs /\ Launch([t EXCEPT !.reply = "Bad file_index. Use /list."])
                ELSE \E o \in ExtractOutcomes(fs[u].files, pdfs[int(args[2]).val],
                                               strip(args[3])) :
                        /\ BASE_DIR' = [fs EXCEPT ![u].files = o.files]
                        /\ Launch([t EXCEPT !.reply = o.reply, !.invoked = o.invoked,
                                            !.payload.src = pdfs[int(args[2]).val]])

\* /images <file_index> [dpi]
images_cmd(u, text) ==
    IF ~check_allowed(u)
    THEN Launch(Task("images_cmd", u, "done", "")) /\ UNCHANGED <<now, BASE_DIR, PENDING, rangevars, ALLOWED_USERS, SESSION_TTL>>
    ELSE LET fs   == touch_and_sweep(BASE_DIR, u, now)
             args == words(text)
             pdfs == list_pdfs(fs[u])
             t    == [Task("images_cmd", u, "reply", "") EXCEPT !.txt = text]
         IN  /\ UNCHANGED <<now, PENDING, rangevars, ALLOWED_USERS, SESSION_TTL>>
             /\ IF Len(args) < 2
                THEN BASE_DIR' = fs /\ Launch([t EXCEPT !.reply = "Usage"])
                ELSE IF ~int(args[2]).ok \/ (Len(args) >= 3 /\ ~int(args[3]).ok)
                THEN BASE_DIR' = fs /\ Launch([Raised("images_cmd", u) EXCEPT !.txt = text])
                ELSE IF int(args[2]).val < 1 \/ int(args[2]).val > Len(pdfs)
                THEN BASE_DIR' = fs /\ Launch([t EXCEPT !.reply = "Bad file_index. Use /list."])
                ELSE \E o \in ImagesRun(fs[u].files, pdfs[int(args[2]).val],
                                         clamp_dpi(IF Len(args) >= 3 THEN int(args[3]).val
                                                   ELSE DefaultDpi)) :
                        /\ BASE_DIR' = [fs EXCEPT ![u].files = o.files]
                        /\ Launch([t EXCEPT !.reply = o.reply, !.invoked = o.invoked,
                                            !.payload.src = pdfs[int(args[2]).val]])

\* /compress <file_index> <preset>
compress_cmd(u, text) ==
    IF ~check_allowed(u)
    THEN Launch(Task("compress_cmd", u, "done", "")) /\ UNCHANGED <<now, BASE_DIR, PENDING, rangevars, ALLOWED_USERS, SESSION_TTL>>
    ELSE LET fs   == touch_and_sweep(BASE_DIR, u, now)
             args == words(text)
             pdfs == list_pdfs(fs[u])
             t    == [Task("compress_cmd", u, "reply", "") EXCEPT !.txt = text]
         IN  /\ UNCHANGED <<now, PENDING, rangevars, ALLOWED_USERS, SESSION_TTL>>
             /\ IF Len(args) # 3
                THEN BASE_DIR' = fs /\ Launch([t EXCEPT !.reply = "Usage"])
                ELSE IF ~int(args[2]).ok
                THEN BASE_DIR' = fs /\ Launch([Raised("compress_cmd", u) EXCEPT !.txt = text])
                ELSE IF int(args[2]).val < 1 \/ int(args[2]).val > Len(pdfs)
                THEN BASE_DIR' = fs /\ Launch([t EXCEPT !.reply = "Bad file_index. Use /list."])
                ELSE \E o \in CompressOutcomes(fs[u].files, pdfs[int(args[2]).val],
                                                strip(args[3])) :
                        /\ BASE_DIR' = [fs EXCEPT ![u].files = o.files]
                        /\ Launch([t EXCEPT !.reply = o.reply, !.invoked = o.invoked,
                                            !.payload.src = pdfs[int(args[2]).val]])

\* on_document after the download: open(target, "wb") and write, then the
\* "Saved" message.  The open raises when the directory is gone, and the
\* error leaves the handler.
Write(h) ==
    /\ tasks[h].pc = "download"
    /\ LET u == tasks[h].user
       IN  IF BASE_DIR[u].exists
           THEN /\ BASE_DIR' = [BASE_DIR EXCEPT ![u].files =
                                  Put(@, tasks[h].target, FileEntry(tasks[h].doc))]
                /\ tasks' = [tasks EXCEPT ![h].pc = "reply", ![h].reply = "Saved"]
           ELSE /\ UNCHANGED BASE_DIR
                /\ tasks' = [tasks EXCEPT ![h].pc = "done", ![h].reply = "unhandled error"]
    /\ UNCHANGED <<now, PENDING, rangevars, ALLOWED_USERS, SESSION_TTL>>

\* (mutant) the end of a handler whose finally clause pops only on success
Finish_pop_on_success(h) ==
    /\ tasks[h].pc = "reply"
    /\ tasks' = [tasks EXCEPT ![h].pc = "done"]
    /\ PENDING' = IF tasks[h].finally /\ tasks[h].reply # "Failed"
                  THEN [PENDING EXCEPT ![tasks[h].user] = NoPending]
                  ELSE PENDING
    /\ UNCHANGED <<now, BASE_DIR, rangevars, ALLOWED_USERS, SESSION_TTL>>

\* the last await of a handler returns and the handler ends; the finally
\* clause of the terminal step pops the user's pending action
Finish(h) ==
    /\ tasks[h].pc = "reply"
    /\ tasks' = [tasks EXCEPT ![h].pc = "done"]
    /\ PENDING' = IF tasks[h].finally
                  THEN [PENDING EXCEPT ![tasks[h].user] = NoPending]
                  ELSE PENDING
    /\ UNCHANGED <<now, BASE_DIR, rangevars, ALLOWED_USERS, SESSION_TTL>>

\* the dispatcher drops the finished handler
Return(h) ==
    /\ tasks[h].pc = "done"
    /\ tasks' = [tasks EXCEPT ![h] = Idle]
    /\ UNCHANGED <<now, BASE_DIR, PENDING, rangevars, ALLOWED_USERS, SESSION_TTL>>

\* no handler is in flight
Quiet == \A h \in Slots : tasks[h] = Idle

\* the dispatcher takes a message now: always when handlers overlap, else
\* when no handler is in flight
Free(overlap) == overlap \/ Quiet

\* time passes: between two messages, or (always) at any moment
Tick(always) ==
    /\ Free(always)
    /\ now < MaxTime
    /\ now' = now + 1
    /\ UNCHANGED <<BASE_DIR, PENDING, tasks, rangevars, ALLOWED_USERS, SESSION_TTL>>

(***************************************************************************)
(* Specifications.                                                         *)
(***************************************************************************)
\* the workspaces on disk when the bot starts: none, or an empty one of
\* user 2 without a marker
InitDirs ==
    {fs \in [Users -> {NoDir, [exists |-> TRUE, last |-> NoMarker, files |-> <<>>]}] :
        fs[1] = NoDir /\ fs[3] = NoDir}

InitBot ==
    /\ ALLOWED_USERS = {1, 2}
    /\ SESSION_TTL = TTL_TICKS
    /\ now = 1
    /\ BASE_DIR \in InitDirs
    /\ PENDING = [u \in Users |-> NoPending]
    /\ tasks = [h \in Slots |-> Idle]

Init ==
    /\ InitBot
    /\ rspec = <<>>
    /\ rtotal = 1
    /\ rout = NotCalled
    /\ rlist = <<>>

\* a user uploads into a workspace that holds fewer than MaxUploads entries
HasRoom(u) == Cardinality(DOMAIN BASE_DIR[u].files) < MaxUploads

\* a message of the inputs in arrives and its handler starts
Upload(in, overlap) ==
    \E u \in DOMAIN in, doc \in 1..MaxDocs :
        \E file_name \in in[u].names, file_size \in in[u].sizes :
            Free(overlap) /\ HasRoom(u) /\ on_document(u, file_name, file_size, doc)

Clear(in, overlap) ==
    \E u \in DOMAIN in : Free(overlap) /\ "clear" \in in[u].commands /\ clear_cmd(u)

List(in, overlap) ==
    \E u \in DOMAIN in : Free(overlap) /\ "list" \in in[u].commands /\ list_cmd(u)

Cancel(in, overlap) ==
    \E u \in DOMAIN in : Free(overlap) /\ "cancel" \in in[u].commands /\ btn_cancel(u)

Button(in, overlap) ==
    \E u \in DOMAIN in : \E button \in in[u].buttons : Free(overlap) /\ btn_action(u, button)

Text(in, overlap) ==
    \E u \in DOMAIN in : \E text \in in[u].texts : Free(overlap) /\ pending_flow(u, text)

Receive(in, overlap) ==
    \/ Upload(in, overlap)
    \/ Clear(in, overlap)
    \/ List(in, overlap)
    \/ Cancel(in, overlap)
    \/ Button(in, overlap)
    \/ Text(in, overlap)

Start(in, overlap) ==
    \E u \in DOMAIN in : Free(overlap) /\ "start" \in in[u].commands /\ start(u)

Help(in, overlap) ==
    \E u \in DOMAIN in : Free(overlap) /\ "help" \in in[u].commands /\ help_cmd(u)

HelpButton(in, overlap) ==
    \E u \in DOMAIN in : Free(overlap) /\ "btn_help" \in in[u].commands /\ btn_help(u)

Merge(in, overlap) ==
    \E u \in DOMAIN in : Free(overlap) /\ "merge" \in in[u].commands /\ merge_cmd(u)

Extract(in, overlap) ==
    \E u \in DOMAIN in : \E text \in in[u].extracts : Free(overlap) /\ extract_cmd(u, text)

Images(in, overlap) ==
    \E u \in DOMAIN in : \E text \in in[u].images : Free(overlap) /\ images_cmd(u, text)

Compress(in, overlap) ==
    \E u \in DOMAIN in : \E text \in in[u].compresses : Free(overlap) /\ compress_cmd(u, text)

\* a message for one of the other handlers arrives
ReceiveCommand(in, overlap) ==
    \/ Start(in, overlap)
    \/ Help(in, overlap)
    \/ HelpButton(in, overlap)
    \/ Merge(in, overlap)
    \/ Extract(in, overlap)
    \/ Images(in, overlap)
    \/ Compress(in, overlap)

Step == \E h \in Slots : Write(h) \/ Finish(h) \/ Return(h)

\* messages are handled one at a time: a handler starts when none is in flight
Next == Receive(SeqInputs, FALSE) \/ Step \/ Tick(FALSE)

Spec == Init /\ [][Next]_vars

\* every handler and every allow-list, one message at a time
InitAll ==
    /\ ALLOWED_USERS \in AllowLists
    /\ SESSION_TTL = TTL_TICKS
    /\ now = 1
    /\ BASE_DIR \in InitDirs
    /\ PENDING = [u \in Users |-> NoPending]
    /\ tasks = [h \in Slots |-> Idle]
    /\ rspec = <<>>
    /\ rtotal = 1
    /\ rout = NotCalled
    /\ rlist = <<>>

NextAll ==
    Receive(AllInputs, FALSE) \/ ReceiveCommand(AllInputs, FALSE) \/ Step \/ Tick(FALSE)

SpecAll == InitAll /\ [][NextAll]_vars

\* /list at the grain of its clock reads: touch_session writes now_ts() into
\* the marker ...
list_cmd_touch(u) ==
    IF ~check_allowed(u)
    THEN Launch(Task("list_cmd", u, "done", "")) /\ UNCHANGED <<now, BASE_DIR, PENDING, rangevars, ALLOWED_USERS, SESSION_TTL>>
    ELSE /\ BASE_DIR' = touch_session(user_dir(BASE_DIR, u), u, now)
         /\ Launch(Task("list_cmd", u, "sweep", ""))
         /\ UNCHANGED <<now, PENDING, rangevars, ALLOWED_USERS, SESSION_TTL>>

\* ... and cleanup_old_sessions compares the markers with now_ts() read
\* again; then the listing is sent
list_cmd_sweep(h) ==
    /\ tasks[h].pc = "sweep"
    /\ LET fs == cleanup_old_sessions(BASE_DIR, now)
       IN  /\ BASE_DIR' = fs
           /\ tasks' = [tasks EXCEPT ![h].pc = "reply",
                                     ![h].reply = IF list_pdfs(fs[tasks[h].user]) = <<>>
                                                  THEN "No PDFs uploaded yet."
                                                  ELSE "Your PDFs:"]
    /\ UNCHANGED <<now, PENDING, rangevars, ALLOWED_USERS, SESSION_TTL>>

\* the workspaces a user can have at time 1: none, or one with or without
\* a marker, empty or holding "a.pdf"
InitWorkspaces ==
    {NoDir} \cup
    [exists : {TRUE}, last : {NoMarker, 1},
     files : {<<>>, [n \in {<<"a", ".", "p", "d", "f">>} |-> FileEntry(1)]}]

\* every SESSION_TTL from 0 on, and a clock that advances at any moment
InitClock ==
    /\ ALLOWED_USERS = {1, 2}
    /\ SESSION_TTL \in 0..MaxTtl
    /\ now = 1
    /\ BASE_DIR \in {fs \in [Users -> InitWorkspaces] : fs[3] = NoDir}
    /\ PENDING = [u \in Users |-> NoPending]
    /\ tasks = [h \in Slots |-> Idle]
    /\ rspec = <<>>
    /\ rtotal = 1
    /\ rout = NotCalled
    /\ rlist = <<>>

ListTouch == \E u \in {1, 2} : Quiet /\ list_cmd_touch(u)

ListSweep == \E h \in Slots : list_cmd_sweep(h)

NextClock ==
    ListTouch \/ ListSweep \/ (\E h \in Slots : Finish(h) \/ Return(h)) \/ Tick(TRUE)

SpecClock == InitClock /\ [][NextClock]_vars

\* Uploads whose names are the names of outputs.  User 1 uploads "a.pdf"
\* and files named as the outputs of /merge, of /extract 1 1 and of
\* /compress 1 screen on "a.pdf", and sends these commands and /clear.
OutputInputs ==
    [u \in {1} |->
        Messages({<<"a", ".", "p", "d", "f">>, <<"m", "e", "r", "g", "e", "d", ".", "p", "d", "f">>,
                  <<"e", "x", "t", "r", "a", "c", "t", "_", "a", "_", "1", ".", "p", "d", "f">>,
                  <<"c", "o", "m", "p", "r", "e", "s", "s", "e", "d", "_", "s", "c", "r", "e", "e", "n", "_", "a", ".", "p", "d", "f">>},
                 {MAX_FILE_BYTES}, {}, {}, {"merge", "clear"})
        @@ [extracts   |-> {<<"/", "e", "x", "t", "r", "a", "c", "t", " ", "1", " ", "1">>},
            images     |-> {},
            compresses |-> {<<"/", "c", "o", "m", "p", "r", "e", "s", "s", " ", "1", " ", "s", "c", "r", "e", "e", "n">>}]]

NextOutputs ==
    \/ Upload(OutputInputs, FALSE)
    \/ Clear(OutputInputs, FALSE)
    \/ Merge(OutputInputs, FALSE)
    \/ Extract(OutputInputs, FALSE)
    \/ Compress(OutputInputs, FALSE)
    \/ Step
    \/ Tick(FALSE)

SpecOutputs == Init /\ [][NextOutputs]_vars

\* handlers overlap: a handler starts whenever a slot is free; the clock
\* stands still meanwhile
NextConc == Receive(ConcInputs, TRUE) \/ Step

SpecConc == Init /\ [][NextConc]_vars

(***************************************************************************)
(* Claims about the pending-action state machine.                          *)
(***************************************************************************)
\* a handler named name starts in slot h in this step
Starts(h, name) == tasks[h] = Idle /\ tasks'[h].handler = name

\* the handler named name in slot h ends in this step
Ends(h, name) ==
    tasks[h].handler = name /\ tasks[h].pc # "done" /\ tasks'[h].pc = "done"

\* the handler named name in slot h has ended
Ended(h, name) == tasks[h].handler = name /\ tasks[h].pc = "done"

\* C1: when pending_flow has handled a message for a user whose pending
\* action was at step 2, that user has no pending action once the handler
\* has finished, whatever the action kind and the outcome.
C1_TerminalStepClears ==
    \A h \in Slots :
        Ended(h, "pending_flow") /\ tasks[h].step = 2
            => PENDING[tasks[h].user] = NoPending

\* a step-2 handler whose external tool failed has finished
C1_Witness ==
    \E h \in Slots :
        /\ Ended(h, "pending_flow") /\ tasks[h].step = 2
        /\ tasks[h].finally /\ tasks[h].invoked /\ tasks[h].reply = "Failed"
        /\ PENDING[tasks[h].user] = NoPending

\* text txt is not a valid index into the listing pdfs
InvalidIndex(txt, pdfs) ==
    ~int(txt).ok \/ int(txt).val < 1 \/ int(txt).val > Len(pdfs)

\* the pending action that the step-1 handler in slot h found is still the
\* user's pending action: same kind, step 1, payload empty
PendingKept(h) ==
    /\ PENDING[tasks[h].user] =
          [action |-> tasks[h].action, step |-> 1, payload |-> tasks[h].payload]
    /\ tasks[h].payload.idx = 0
    /\ tasks[h].payload.src = <<>>

IsFreshPending(p, kind) ==
    p.action = kind /\ p.step = 1 /\ p.payload.idx = 0 /\ p.payload.src = <<>>

\* C3 (as stated): when btn_action has handled a menu selection, the user's
\* pending action is (selected kind, step 1, empty payload), whatever the
\* pending state before.
C3_MenuSetsPending ==
    \A h \in Slots :
        Ended(h, "btn_action") /\ check_allowed(tasks[h].user)
            => IsFreshPending(PENDING[tasks[h].user], tasks[h].action)

\* C3 (amended): btn_action makes the user's pending action (selected kind,
\* step 1, a new empty payload) provided the workspace lists at least one
\* PDF; with an empty listing it leaves the pending action as it was.
C3_MenuSetsPendingIfListed ==
    [][\A h \in Slots :
        /\ Starts(h, "btn_action") /\ check_allowed(tasks'[h].user)
           => LET u == tasks'[h].user
              IN  IF list_pdfs(BASE_DIR'[u]) # <<>>
                  THEN /\ IsFreshPending(PENDING'[u], tasks'[h].action)
                       /\ PENDING'[u].payload.id # PENDING[u].payload.id
                  ELSE PENDING'[u] = PENDING[u]
        /\ Ends(h, "btn_action") => PENDING' = PENDING]_vars

\* a menu selection has been handled while PDFs were listed
C3_Witness ==
    \E h \in Slots :
        /\ Ended(h, "btn_action")
        /\ tasks[h].reply = "Send file index"
        /\ IsFreshPending(PENDING[tasks[h].user], tasks[h].action)

\* C4: btn_cancel leaves the user with no pending action and no payload, in
\* every pending state, and changes neither the files of any workspace nor
\* any other user's pending action.
C4_CancelClears ==
    [][\A h \in Slots :
        /\ Starts(h, "btn_cancel") /\ check_allowed(tasks'[h].user)
           => /\ PENDING'[tasks'[h].user] = NoPending
              /\ \A v \in Users \ {tasks'[h].user} : PENDING'[v] = PENDING[v]
              /\ BASE_DIR' = BASE_DIR
        /\ Ends(h, "btn_cancel") => PENDING' = PENDING /\ BASE_DIR' = BASE_DIR]_vars

\* a cancel has been handled for a user whose pending action was at step 2
C4_Witness ==
    \E h \in Slots :
        /\ Ended(h, "btn_cancel") /\ tasks[h].step = 2
        /\ tasks[h].payload.src \in DOMAIN BASE_DIR[tasks[h].user].files
        /\ PENDING[tasks[h].user] = NoPending

\* C5: a pending action that reached step 2 leads to at most one dispatch:
\* no two handlers run the external tool for the same payload of the same
\* user.
C5_OneDispatchPerPending ==
    \A h, k \in Slots :
        /\ h # k
        /\ tasks[h].handler = "pending_flow" /\ tasks[k].handler = "pending_flow"
        /\ tasks[h].step = 2 /\ tasks[k].step = 2
        /\ tasks[h].invoked /\ tasks[k].invoked
        /\ tasks[h].user = tasks[k].user
        => tasks[h].payload.id # tasks[k].payload.id

(***************************************************************************)
(* Claims about uploads and the workspaces.                                *)
(***************************************************************************)
\* C6: no upload is written over a file that exists in the workspace at
\* the time of the write.
C6_UploadNeverOverwrites ==
    [][\A h \in Slots :
        tasks[h].pc = "download" /\ tasks'[h].reply = "Saved"
            => tasks[h].target \notin DOMAIN BASE_DIR[tasks[h].user].files]_vars

\* the handler starting in slot h runs cleanup_old_sessions
Sweeps(h) ==
    \/ Starts(h, "list_cmd") /\ tasks'[h].pc # "done"
    \/ Starts(h, "btn_action") /\ tasks'[h].pc # "done"
    \/ Starts(h, "pending_flow") /\ tasks'[h].pc # "done"

\* C7: when cleanup_old_sessions has run, every workspace directory whose
\* marker was older than the TTL is removed entirely, and every other
\* workspace directory (no marker, or a marker not older than the TTL)
\* still exists with its contents unchanged.
C7_SweepRemovesExactlyStale ==
    [][\A h \in Slots :
        Sweeps(h) =>
            \A v \in Users \ {tasks'[h].user} :
                IF /\ BASE_DIR[v].exists
                   /\ BASE_DIR[v].last # NoMarker
                   /\ now - BASE_DIR[v].last > SESSION_TTL
                THEN BASE_DIR'[v] = NoDir
                ELSE BASE_DIR'[v] = BASE_DIR[v]]_vars

\* a sweep has removed the stale workspace of a user who has a pending
\* action, while the workspace of the sweeping user is kept
C7_Witness ==
    \E h \in Slots :
        /\ tasks[h].handler = "list_cmd" /\ tasks[h].pc = "reply"
        /\ BASE_DIR[tasks[h].user].exists
        /\ \E v \in Users \ {tasks[h].user} :
              ~BASE_DIR[v].exists /\ PENDING[v] # NoPending

\* C8: when clear_cmd has completed, the user's workspace holds the marker
\* and nothing else, the user has no pending action, and every other
\* user's workspace and pending action are unchanged.
C8_ClearEmptiesOwnSession ==
    [][\A h \in Slots :
        /\ Starts(h, "clear_cmd") /\ check_allowed(tasks'[h].user)
           => LET u == tasks'[h].user
              IN  /\ BASE_DIR'[u].exists
                  /\ BASE_DIR'[u].last # NoMarker
                  /\ BASE_DIR'[u].files = <<>>
                  /\ PENDING'[u] = NoPending
                  /\ \A v \in Users \ {u} :
                        BASE_DIR'[v] = BASE_DIR[v] /\ PENDING'[v] = PENDING[v]
        /\ Ends(h, "clear_cmd") => PENDING' = PENDING /\ BASE_DIR' = BASE_DIR]_vars

\* a clear has completed for a user while another user holds files and a
\* pending action
C8_Witness ==
    \E h \in Slots :
        /\ Ended(h, "clear_cmd")
        /\ BASE_DIR[tasks[h].user].files = <<>>
        /\ PENDING[tasks[h].user] = NoPending
        /\ \E v \in Users \ {tasks[h].user} :
              list_pdfs(BASE_DIR[v]) # <<>> /\ PENDING[v] # NoPending

(***************************************************************************)
(* The range engine on its own: every spec text up to MaxSpecLen over      *)
(* RangeChars and every page count up to MaxPages.                         *)
(***************************************************************************)
RangeChars == {"0", "1", "2", "3", ",", "-", " ", "x"}

RangeSpecs == UNION {[1..n -> RangeChars] : n \in 0..MaxSpecLen}

InitRanges ==
    /\ now = 1
    /\ ALLOWED_USERS = {1, 2}
    /\ SESSION_TTL = TTL_TICKS
    /\ BASE_DIR = [u \in Users |-> NoDir]
    /\ PENDING = [u \in Users |-> NoPending]
    /\ tasks = [h \in Slots |-> Idle]
    /\ rspec \in RangeSpecs
    /\ rtotal \in 1..MaxPages
    /\ rout = NotCalled
    /\ rlist = <<>>

CallParseRanges ==
    /\ rout = NotCalled
    /\ rout' = [ok |-> parse_ranges(rspec, rtotal).ok,
                pages |-> parse_ranges(rspec, rtotal).pages,
                called |-> TRUE]
    /\ UNCHANGED <<rspec, rtotal, rlist, botvars>>

NextRanges == CallParseRanges

SpecRanges == InitRanges /\ [][NextRanges]_vars

(***************************************************************************)
(* The round trip of the range engine: every ascending page list within    *)
(* 1..N, N up to MaxListPages, is compacted and the text parsed back.      *)
(***************************************************************************)
\* the strictly ascending sequence of the elements of a set of numbers
RECURSIVE Ascending(_)
Ascending(S) ==
    IF S = {} THEN <<>>
    ELSE LET m == CHOOSE x \in S : \A y \in S : x <= y
         IN  <<m>> \o Ascending(S \ {m})

InitCompact ==
    /\ now = 1
    /\ ALLOWED_USERS = {1, 2}
    /\ SESSION_TTL = TTL_TICKS
    /\ BASE_DIR = [u \in Users |-> NoDir]
    /\ PENDING = [u \in Users |-> NoPending]
    /\ tasks = [h \in Slots |-> Idle]
    /\ rtotal \in 1..MaxListPages
    /\ rlist \in {Ascending(S) : S \in SUBSET (1..rtotal)}
    /\ rspec = <<>>
    /\ rout = NotCalled

\* compact = pages_to_compact_ranges(P); parse_ranges(compact, N)
CallRoundTrip ==
    /\ rout = NotCalled
    /\ rspec' = pages_to_compact_ranges(rlist)
    /\ rout' = [ok |-> parse_ranges(pages_to_compact_ranges(rlist), rtotal).ok,
                pages |-> parse_ranges(pages_to_compact_ranges(rlist), rtotal).pages,
                called |-> TRUE]
    /\ UNCHANGED <<rtotal, rlist, botvars>>

NextCompact == CallRoundTrip

SpecCompact == InitCompact /\ [][NextCompact]_vars

(***************************************************************************)
(* Claims about the range engine (checked under SpecRanges).               *)
(***************************************************************************)
\* the tokens of a spec, as the claims speak of them: the comma-separated
\* parts, trimmed, blank parts dropped
Tokens(spec) == stripped_parts(split(strip(spec), ","))

AllDigits(s) == s # <<>> /\ \A i \in 1..Len(s) : IsDigit(s[i])

\* a token 'a-b' or 'a-': a number, a dash, and a number or nothing
IsRangeToken(t) ==
    /\ Contains(t, "-")
    /\ AllDigits(strip(split1(t, "-")[1]))
    /\ strip(split1(t, "-")[2]) = <<>> \/ AllDigits(strip(split1(t, "-")[2]))

TokenStart(t) == DigitsValue(strip(split1(t, "-")[1]))

\* the end of a range token, a missing end being total
TokenEnd(t, total) ==
    IF strip(split1(t, "-")[2]) = <<>> THEN total
    ELSE DigitsValue(strip(split1(t, "-")[2]))

IsPageToken(t) == AllDigits(t)

\* every token is a page number or a range 'a-b' with a <= b
WellFormed(spec, total) ==
    /\ Tokens(spec) # <<>>
    /\ \A i \in 1..Len(Tokens(spec)) :
        LET t == Tokens(spec)[i]
        IN  \/ IsPageToken(t)
            \/ IsRangeToken(t) /\ TokenStart(t) <= TokenEnd(t, total)

clamp(x, total) == Min(total, Max(1, x))

\* the 1-based pages a token selects when both endpoints are clamped
ClampedPages(t, total) ==
    IF IsRangeToken(t)
    THEN clamp(TokenStart(t), total)..clamp(TokenEnd(t, total), total)
    ELSE {DigitsValue(t)} \cap (1..total)

\* the 1-based pages a token selects when the start is only raised to 1 and
\* the end only lowered to total
BoundedPages(t, total) ==
    IF IsRangeToken(t)
    THEN Max(1, TokenStart(t))..Min(total, TokenEnd(t, total))
    ELSE {DigitsValue(t)} \cap (1..total)

Selected(pages) == {p + 1 : p \in Range(pages)}

NoDuplicates(pages) ==
    \A i, j \in 1..Len(pages) : i # j => pages[i] # pages[j]

StrictlyAscending(pages) ==
    \A i \in 1..(Len(pages) - 1) : pages[i] < pages[i + 1]

\* C9 (as claimed): every result of parse_ranges is strictly ascending,
\* duplicate-free and within 0..total_pages-1, whatever the order of the tokens.
C9_AscendingResult ==
    (rout.called /\ rout.ok) =>
        /\ StrictlyAscending(rout.pages)
        /\ NoDuplicates(rout.pages)
        /\ \A i \in 1..Len(rout.pages) : rout.pages[i] \in 0..(rtotal - 1)

\* C9 (amended): every result of parse_ranges is non-empty, duplicate-free and
\* within 0..total_pages-1; its order is the order in which the tokens first
\* name the pages, so it is the set of the pages the tokens select, each at the
\* position of its first mention.
C9_DedupInBounds ==
    (rout.called /\ rout.ok) =>
        /\ rout.pages # <<>>
        /\ NoDuplicates(rout.pages)
        /\ \A i \in 1..Len(rout.pages) : rout.pages[i] \in 0..(rtotal - 1)
        /\ WellFormed(rspec, rtotal) =>
            \A i, j \in 1..Len(Tokens(rspec)) :
                \A p \in BoundedPages(Tokens(rspec)[i], rtotal),
                   q \in BoundedPages(Tokens(rspec)[j], rtotal) :
                    (/\ i < j
                     /\ \A k \in 1..i : q \notin BoundedPages(Tokens(rspec)[k], rtotal))
                    => \E m, n \in 1..Len(rout.pages) :
                        m < n /\ rout.pages[m] = p - 1 /\ rout.pages[n] = q - 1

\* C9 witness: a result whose first page is higher than its second, from a
\* spec whose later token names a lower page.
C9_Witness ==
    /\ rout.called /\ rout.ok
    /\ Len(rout.pages) >= 2
    /\ rout.pages[1] > rout.pages[2]

\* C10 (as claimed): in a spec of well-formed tokens, no token is rejected
\* and each range 'a-b' with a <= b selects exactly clamp(a)..clamp(b), with
\* clamp(x) = min(total_pages, max(1, x)).
C10_ClampBothEnds ==
    (rout.called /\ WellFormed(rspec, rtotal)) =>
        LET sel == UNION {ClampedPages(Tokens(rspec)[i], rtotal) :
                          i \in 1..Len(Tokens(rspec))}
        IN  /\ rout.ok <=> sel # {}
            /\ rout.ok => Selected(rout.pages) = sel

\* C10 (amended): in a spec of well-formed tokens, each range 'a-b' with
\* a <= b selects exactly the pages p with max(1, a) <= p <= min(total_pages, b)
\* (a missing end being total_pages), which is no page at all when the range
\* lies outside 1..total_pages; the spec is rejected exactly when its tokens
\* select no page.
C10_ClampStartUpEndDown ==
    (rout.called /\ WellFormed(rspec, rtotal)) =>
        LET sel == UNION {BoundedPages(Tokens(rspec)[i], rtotal) :
                          i \in 1..Len(Tokens(rspec))}
        IN  /\ rout.ok <=> sel # {}
            /\ rout.ok => Selected(rout.pages) = sel

\* C10 witness: an accepted spec with a range token whose start is below 1
\* and another whose end is above total_pages.
C10_Witness ==
    /\ rout.called /\ rout.ok /\ WellFormed(rspec, rtotal)
    /\ \E i \in 1..Len(Tokens(rspec)) :
        LET t == Tokens(rspec)[i]
        IN  IsRangeToken(t) /\ (TokenStart(t) < 1 \/ TokenEnd(t, rtotal) > rtotal)

\* the start and the end text of a dash token
StartText(t) == strip(split1(t, "-")[1])

EndText(t) == strip(split1(t, "-")[2])

\* a dash token with no start
MissingStart(t) == Contains(t, "-") /\ StartText(t) = <<>>

\* some value of the token is not a number
NotANumber(t) ==
    IF Contains(t, "-")
    THEN \/ StartText(t) # <<>> /\ ~int(StartText(t)).ok
         \/ EndText(t) # <<>> /\ ~int(EndText(t)).ok
    ELSE ~int(t).ok

\* a dash token whose end, a missing end counting as total, is below its start
EndBeforeStart(t, total) ==
    /\ Contains(t, "-")
    /\ StartText(t) # <<>> /\ int(StartText(t)).ok
    /\ EndText(t) = <<>> \/ int(EndText(t)).ok
    /\ (IF EndText(t) = <<>> THEN total ELSE int(EndText(t)).val) < int(StartText(t)).val

\* the 1-based pages of 1..total that a token without any of the faults selects
TokenPages(t, total) ==
    IF Contains(t, "-")
    THEN {p \in 1..total :
            /\ int(StartText(t)).val <= p
            /\ p <= (IF EndText(t) = <<>> THEN total ELSE int(EndText(t)).val)}
    ELSE {int(t).val} \cap (1..total)

\* the validation errors of a range spec
RangeError(spec, total) ==
    \/ strip(spec) = <<>>
    \/ \E i \in 1..Len(Tokens(spec)) :
          \/ MissingStart(Tokens(spec)[i])
          \/ NotANumber(Tokens(spec)[i])
          \/ EndBeforeStart(Tokens(spec)[i], total)
    \/ \A i \in 1..Len(Tokens(spec)) : TokenPages(Tokens(spec)[i], total) = {}

\* C11: parse_ranges fails, returning no pages, when the spec is empty after
\* trimming, a dash token has no start, a dash token has end < start, a
\* value is not a number, or no token selects a page of 1..total_pages; it
\* fails in no other case, so an out-of-range page next to a token that
\* selects a valid page is not an error.
C11_ValidationErrors ==
    rout.called =>
        /\ RangeError(rspec, rtotal) => ~rout.ok /\ rout.pages = <<>>
        /\ ~RangeError(rspec, rtotal) => rout.ok /\ rout.pages # <<>>

\* C11 witness: the single token of the spec is a page above total_pages,
\* and the call has failed.
C11_Witness ==
    /\ rout.called /\ ~rout.ok
    /\ Len(Tokens(rspec)) = 1
    /\ IsPageToken(Tokens(rspec)[1])
    /\ DigitsValue(Tokens(rspec)[1]) > rtotal

\* the first and the last page of a token of a compacted text
RunLo(t) == IF Contains(t, "-") THEN TokenStart(t) ELSE DigitsValue(t)

RunHi(t) == IF Contains(t, "-") THEN DigitsValue(EndText(t)) ELSE DigitsValue(t)

\* the text is a comma-separated list of bare page numbers and ranges 'a-b'
\* with a < b, each run ending at least two pages before the next begins
MaximalRuns(text) ==
    LET ts == split(text, ",")
    IN  /\ \A i \in 1..Len(ts) :
              \/ AllDigits(ts[i])
              \/ /\ Contains(ts[i], "-")
                 /\ AllDigits(StartText(ts[i])) /\ AllDigits(EndText(ts[i]))
                 /\ RunLo(ts[i]) < RunHi(ts[i])
        /\ \A i \in 1..(Len(ts) - 1) : RunHi(ts[i]) + 1 < RunLo(ts[i + 1])

\* the round trip gives back the pages of the list, from a text of maximal runs
RoundTripExact ==
    /\ rout.ok
    /\ Range(rout.pages) = {p - 1 : p \in Range(rlist)}
    /\ MaximalRuns(rspec)

\* C12 (as stated): for every strictly ascending list P of pages within
\* 1..N, parse_ranges(pages_to_compact_ranges(P), N) selects exactly
\* {p-1 : p in P}, and the compacted text consists of maximal runs only.
C12_RoundTrip == rout.called => RoundTripExact

\* C12 (amended): the round trip is exact, from a text of maximal runs, for
\* every non-empty strictly ascending list P; the empty list compacts to
\* the empty text, which parse_ranges rejects.
C12_RoundTripNonEmpty ==
    rout.called =>
        IF rlist # <<>> THEN RoundTripExact
        ELSE rspec = <<>> /\ ~rout.ok

\* C12 witness: the pages 2..10 of 10 have been compacted to '2-10' and
\* parsed back.
C12_Witness ==
    /\ rout.called /\ rout.ok
    /\ rtotal = 10
    /\ rlist = <<2, 3, 4, 5, 6, 7, 8, 9, 10>>
    /\ rspec = <<"2", "-", "1", "0">>
    /\ Range(rout.pages) = 1..9

(***************************************************************************)
(* Claims about every handler.                                             *)
(***************************************************************************)
\* user u is in the allow-list (nobody is when the list is empty)
Authorized(u) == u \in ALLOWED_USERS

\* the handler in slot h has ended because an error left it
EndedByError(h) == tasks[h].pc = "done" /\ tasks[h].reply = "unhandled error"

\* C13: every handler, for every message text of an authorized user, ends by
\* returning normally and never by an unhandled error, also when the file
\* index or the dpi of /extract, /images and /compress is not a number.
C13_NoUnhandledError ==
    \A h \in Slots : Authorized(tasks[h].user) => ~EndedByError(h)

\* a handler starts in slot h
Begins(h) == tasks[h] = Idle /\ tasks'[h] # Idle

\* C14: for a message of a user who is not in the allow-list, and for every
\* message when the allow-list is empty, the handler sends no response and
\* changes no state: it ends at once without a message, and workspaces,
\* markers, files and the pending-action map stay as they are.
C14_UnauthorizedIsIgnored ==
    [][\A h \in Slots :
        Begins(h) /\ ~Authorized(tasks'[h].user)
            => /\ tasks'[h].pc = "done"
               /\ tasks'[h].reply = ""
               /\ ~tasks'[h].invoked
               /\ BASE_DIR' = BASE_DIR
               /\ PENDING' = PENDING]_vars

\* C14 witness: with the allow-list {1, 2}, user 1 has a file and a pending
\* action, and an upload of user 3 has been dropped.
C14_Witness ==
    \E h \in Slots :
        /\ ALLOWED_USERS = {1, 2}
        /\ tasks[h].handler = "on_document"
        /\ tasks[h].user = 3
        /\ tasks[h].pc = "done"
        /\ BASE_DIR[1].files # <<>>
        /\ PENDING[1] # NoPending
        /\ BASE_DIR[3] = NoDir

\* the handlers that run an external tool on one source file
OnOneSource == {"pending_flow", "extract_cmd", "images_cmd", "compress_cmd"}

\* the messages that tell the user that the source file is gone
NotFoundReplies == {"No PDFs uploaded.", "Source file disappeared. Use /list."}

\* C15: an external tool is never run on a source file that does not exist
\* when the handler starts; a step-2 message whose captured file is gone is
\* answered by a not-found message, runs no external tool, writes no file,
\* and clears the pending action.
C15_NoDispatchOnMissingFile ==
    [][\A h \in Slots :
        Begins(h) /\ tasks'[h].handler \in OnOneSource
            => LET u   == tasks'[h].user
                   src == tasks'[h].payload.src
               IN  /\ tasks'[h].invoked => src \in DOMAIN BASE_DIR[u].files
                   /\ tasks'[h].handler = "pending_flow" /\ tasks'[h].step = 2
                      /\ src \notin DOMAIN BASE_DIR[u].files
                        => /\ tasks'[h].reply \in NotFoundReplies
                           /\ ~tasks'[h].invoked
                           /\ BASE_DIR'[u].files = BASE_DIR[u].files
                           /\ PENDING'[u] = NoPending]_vars

\* C15 witness: a step-2 message arrived after the captured file "a.pdf" had
\* gone while another PDF was there; it was answered by "Source file
\* disappeared" and the pending action is cleared.
C15_Witness ==
    \E h \in Slots :
        /\ tasks[h].handler = "pending_flow"
        /\ tasks[h].step = 2
        /\ tasks[h].payload.src = <<"a", ".", "p", "d", "f">>
        /\ tasks[h].reply = "Source file disappeared. Use /list."
        /\ ~tasks[h].invoked
        /\ <<"a", ".", "p", "d", "f">> \notin DOMAIN BASE_DIR[tasks[h].user].files
        /\ BASE_DIR[tasks[h].user].files # <<>>
        /\ PENDING[tasks[h].user] = NoPending

\* C16: every message of an authorized user that reaches a handler records
\* the current time in that user's last-activity marker.
C16_EveryMessageTouches ==
    [][\A h \in Slots :
        Begins(h) /\ Authorized(tasks'[h].user)
            => /\ BASE_DIR'[tasks'[h].user].exists
               /\ BASE_DIR'[tasks'[h].user].last = now]_vars

\* the handler that starts in slot h is pending_flow on a pending action at
\* the given step
BeginsStep(h, step) ==
    /\ Begins(h)
    /\ tasks'[h].handler = "pending_flow"
    /\ Authorized(tasks'[h].user)
    /\ PENDING[tasks'[h].user].step = step

\* C17: at step 1 a number i within the current sorted listing turns the
\* pending action into (same kind, step 2, the path of the i-th entry of the
\* listing at that moment); the terminal step dispatches on that captured
\* path, whatever sits at index i by then.
C17_IndexCapturesPath ==
    [][\A h \in Slots :
        LET u       == tasks'[h].user
            txt     == tasks'[h].txt
            listing == list_pdfs(BASE_DIR'[u])
        IN  /\ BeginsStep(h, 1) /\ AllDigits(txt)
               /\ DigitsValue(txt) \in 1..Len(listing)
                 => /\ PENDING'[u].action = PENDING[u].action
                    /\ PENDING'[u].step = 2
                    /\ PENDING'[u].payload.src = listing[DigitsValue(txt)]
            /\ BeginsStep(h, 2) /\ tasks'[h].invoked
                 => \E o \in DispatchOutcomes(PENDING[u].action, BASE_DIR[u].files,
                                              PENDING[u].payload.src, txt) :
                        /\ o.invoked
                        /\ BASE_DIR'[u].files = o.files]_vars

\* C17 witness: "a.pdf" was captured at index 1, then "_.pdf" was uploaded
\* and took index 1, and the extract at step 2 has run on "a.pdf".
C17_Witness ==
    \E h \in Slots :
        LET u == tasks[h].user
        IN  /\ tasks[h].handler = "pending_flow"
            /\ tasks[h].step = 2
            /\ tasks[h].action = "extract"
            /\ tasks[h].reply = "Extract result"
            /\ tasks[h].payload.idx = 1
            /\ tasks[h].payload.src = <<"a", ".", "p", "d", "f">>
            /\ list_pdfs(BASE_DIR[u])[1] = <<"_", ".", "p", "d", "f">>
            /\ <<"e", "x", "t", "r", "a", "c", "t", "_", "a", "_", "1", ".", "p", "d", "f">>
                    \in DOMAIN BASE_DIR[u].files

(***************************************************************************)
(* Claims about overlapping handlers.                                      *)
(***************************************************************************)
\* C18: a pending action that btn_action started while an earlier step-2
\* handler of the same user was suspended is still there, unchanged, when
\* the earlier handler finishes: the handler removes only the pending action
\* it dispatched.
C18_NewerActionSurvives ==
    [][\A h \in Slots :
        (/\ tasks[h].handler = "pending_flow"
         /\ tasks[h].step = 2
         /\ tasks[h].pc = "reply"
         /\ tasks'[h].pc = "done"
         /\ PENDING[tasks[h].user] # NoPending
         /\ PENDING[tasks[h].user].payload.id # tasks[h].payload.id)
            => PENDING'[tasks[h].user] = PENDING[tasks[h].user]]_vars

(***************************************************************************)
(* Claims about two users.                                                 *)
(***************************************************************************)
\* the user whose handler takes a step in slot h
Acting(h) == IF tasks[h] = Idle THEN tasks'[h].user ELSE tasks[h].user

\* the workspace of user v is removed in this step, and its marker was older
\* than the TTL
SweptStale(v) ==
    /\ BASE_DIR[v].exists
    /\ BASE_DIR[v].last # NoMarker
    /\ now - BASE_DIR[v].last > SESSION_TTL
    /\ BASE_DIR'[v] = NoDir

\* C19: a step of a handler run for user A leaves the pending action of
\* every other user B unchanged, and leaves B's workspace as it is, unless
\* its sweep removes B's whole workspace, whose marker is older than the TTL.
C19_NoCrossTalk ==
    [][\A h \in Slots :
        tasks'[h] # tasks[h]
            => \A v \in Users \ {Acting(h)} :
                    /\ PENDING'[v] = PENDING[v]
                    /\ BASE_DIR'[v] = BASE_DIR[v] \/ SweptStale(v)]_vars

\* C19 witness: /list of user 2 has swept the stale workspace of user 1, and
\* the pending action of user 1 is as it was.
C19_Witness ==
    \E h \in Slots :
        /\ tasks[h].handler = "list_cmd"
        /\ tasks[h].user = 2
        /\ tasks[h].pc = "reply"
        /\ BASE_DIR[1] = NoDir
        /\ BASE_DIR[2].last = now
        /\ PENDING[1].step = 2

\* C20: a sweep never evicts the workspace of the user whose request
\* triggered it: the marker is touched first, so for every TTL >= 0 the
\* user's workspace and files are still there after the sweep.
C20_SweepSparesRequester ==
    [][\A h \in Slots :
        tasks[h].pc = "sweep" /\ tasks'[h].pc # "sweep"
            => /\ BASE_DIR'[tasks[h].user].exists
               /\ BASE_DIR'[tasks[h].user].files = BASE_DIR[tasks[h].user].files]_vars

\* C21: a pending action never outlives its user's workspace: a user whose
\* workspace the sweep has removed has no pending action.
C21_NoPendingWithoutWorkspace ==
    \A u \in Users : ~BASE_DIR[u].exists => PENDING[u] = NoPending

(***************************************************************************)
(* Claims about uploads and outputs.                                       *)
(***************************************************************************)
\* entry e of a workspace is a file that the user uploaded
IsUpload(e) == e.kind = "file" /\ e.data # ToolOutput

\* C22: no output of merge, extract or compress is written to the path of an
\* uploaded file: an uploaded file keeps its content in every step, unless
\* the step empties the workspace (clear) or removes it (eviction).
C22_OutputsSpareUploads ==
    [][\A u \in Users :
        \A n \in DOMAIN BASE_DIR[u].files :
            IsUpload(BASE_DIR[u].files[n])
                => \/ /\ n \in DOMAIN BASE_DIR'[u].files
                      /\ BASE_DIR'[u].files[n] = BASE_DIR[u].files[n]
                   \/ BASE_DIR'[u].files = <<>>]_vars

=============================================================================
